---------------------------- MODULE Spec2Model ----------------------------
(***************************************************************************)
(* Chunk streaming subsystem of deus-vulkan: the fixed-capacity ChunkPool, *)
(* the ChunkQueue of pending coordinates and the Chonker that owns both    *)
(* and runs the worker thread that reads chunk blocks from the .chunk file.*)
(*                                                                         *)
(* The owner (main) thread calls Chonker::request, ChunkPool::unload,      *)
(* Chonker::getStatus and Chonker::fetch; the worker thread runs           *)
(* Chonker::worker, split at the points where the owner thread can         *)
(* interleave: pop, getPoolIndex, the file read, setChunkStatus.  The      *)
(* owner thread ends the Chonker's life with ~Chonker and the destruction  *)
(* of its members.                                                         *)
(***************************************************************************)
EXTENDS Integers, Sequences, FiniteSets, TLC

\* ------------------------------------------------------------------ bounds
\* capacity handed to Chonker's constructor
Capacity == 2
\* chunk coordinates the owner of the Chonker asks for: x in -1..MaxCoord, z = 0
MaxCoord == 2
\* number of Chonker::request / ChunkPool::unload calls the owner thread makes
\* that reach the pool's structures or the queue (a call that returns at its
\* first check is not counted)
MaxCalls == 3
\* the same for an owner thread that also polls getStatus and fetch (QuerySpec)
MaxQueryCalls == 2
\* a ChunkPool used on its own (PoolSpec): its capacity, the coordinates
\* x in 0..MaxPoolCoord, z = 0 it is called with, the number of calls counted
PoolCapacity == 3
MaxPoolCoord == 3
MaxPoolCalls == 6
\* number of Chonker::request calls before the Chonker is destroyed (LifeSpec)
MaxLifeCalls == 2
\* an owner that asks for chunks on either side of the origin (SignedSpec):
\* coordinates x, z in -1..MaxSignedCoord, and the number of its calls counted
MaxSignedCoord == 0
MaxSignedCalls == 1
\* number of counted calls of an owner thread followed at the grain of single
\* container operations (StepSpec, RaceSpec)
MaxRaceCalls == 2

\* --------------------------------------------------------------- constants
\* chunk.hpp: sample resolution of chunks
CHUNK_RESOLUTION == 17
\* chonker.hpp: const int num_workers = 1
num_workers == 1

Chunk(x, z) == [x |-> x, z |-> z]
Coords == {Chunk(x, 0) : x \in (0 - 1)..MaxCoord}
PoolCoords == {Chunk(x, 0) : x \in 0..MaxPoolCoord}
SignedCoords == {Chunk(x, z) : x \in (0 - 1)..MaxSignedCoord, z \in (0 - 1)..MaxSignedCoord}
Workers == 0..(num_workers - 1)

\* ChunkStatus
Unloaded == "Unloaded"
Loading == "Loading"
Loaded == "Loaded"
ChunkStatus == {Unloaded, Loading, Loaded}

\* a cell of reserved vector storage that was never written
Uninit == 0 - 1
\* heights of a value-initialised ChunkData: all zero
ZeroFilled == 0 - 1
\* heights after a read that stopped short: the leading bytes of a block,
\* then what the array held before
Partial == 0 - 2
\* what heightsAt gives for such an array: no sample of any block
Stale == 0 - 1000000
\* nothing: no fault, no call, a void result
None == "none"
\* std::nullopt of getPoolIndex, nullptr of fetch
NoIndex == 0 - 1
\* the owner thread is in no call of the pool
Idle == [at |-> "idle", chunk |-> Chunk(0, 0)]

VARIABLES
    pool,           \* ChunkPool::pool: slot -> [chunk, heights]
    status,         \* ChunkPool::status: slot -> ChunkStatus
    loadable,       \* ChunkPool::loadable: free stack of slots
    chunkToLoaded,  \* ChunkPool::chunkToLoaded: coordinate -> slot (partial)
    loaded,         \* ChunkPool::loaded: [size, cell] reserved storage of capacity cells
    loadedIndex,    \* ChunkPool::loadedIndex: slot -> position in loaded
    jobs,           \* ChunkQueue::jobs
    fileOffsets,    \* Chonker::fileOffsets: coordinate -> byte offset (partial)
    wpc,            \* worker -> position in Chonker::worker
    wc,             \* worker -> local Chunk c
    wIdx,           \* worker -> local poolIndex
    wFin,           \* worker -> state of the local std::ifstream fin after its read
    fault,          \* "none", or how the process died
    requested,      \* history: coordinates request was called with
    freed,          \* history: slots ChunkPool::unload has put back on the free stack
    ret,            \* what the owner thread's most recent getStatus (st) or fetch (idx) returned
    ncalls,         \* history: number of request/unload calls counted by MaxCalls
    stop,           \* workers whose jthread stop source has had request_stop called
    joined,         \* workers whose jthread has been joined
    dtor,           \* position of the owner thread in the destruction of the Chonker
    pending,        \* history: the jobs that were queued when stop was requested
    pushed,         \* history: the jobs pushed, in order, each with whether the pool
                    \*          gave the coordinate a slot in that call
    popped,         \* history: the coordinates pop has returned, in order
    processed,      \* history: the jobs whose loop body ran to its end, in order,
                    \*          each with whether setChunkStatus found a mapping
    opc,            \* position of the owner thread inside a call that mutates
                    \*          chunkToLoaded: [at, chunk]
    wSet            \* worker -> local poolIndex of the setChunkStatus it is in

\* pool.size(): the capacity the pool was constructed with, and its slots
capacity == Cardinality(DOMAIN pool)
Slots == DOMAIN pool
\* stands for every size_t value that is no index of the pool (>= capacity)
Wild == capacity

poolVars == <<pool, status, loadable, chunkToLoaded, loaded, loadedIndex>>
workerVars == <<wpc, wc, wIdx, wFin>>
lifeVars == <<stop, joined, dtor, pending>>
fifoVars == <<pushed, popped, processed>>
raceVars == <<opc, wSet>>
vars == <<pool, status, loadable, chunkToLoaded, loaded, loadedIndex, jobs,
          fileOffsets, wpc, wc, wIdx, wFin, fault, requested, freed, ret, ncalls,
          stop, joined, dtor, pending, pushed, popped, processed, opc, wSet>>

\* ------------------------------------------------------- chunk file format
\* The .chunk file: a uint64 record count, the TOC records {chunkX, chunkZ, offset},
\* then for every record a block of R*R int16 samples at its offset.
SamplesPerChunk == CHUNK_RESOLUTION * CHUNK_RESOLUTION
BlockBytes == 2 * SamplesPerChunk
\* byte offset of the i-th data block (i from 0) of a file with k TOC records
BlockOffset(k, i) == 8 + 16 * k + i * BlockBytes

\* the TOC records of a file that holds the chunks xs (in this order)
TocOf(xs) ==
    [i \in 1..Len(xs) |->
        [chunkX |-> xs[i], chunkZ |-> 0, offset |-> BlockOffset(Len(xs), i - 1)]]

\* the files the engine may be started on: chunk (MaxCoord,0) is in neither,
\* and the second file does not describe chunk (0,0)
ChunkFiles == {TocOf([i \in 1..MaxCoord |-> i - 1]),
               TocOf([i \in 1..(MaxCoord - 1) |-> i])}

\* the int16 sample stored at (even) byte position p of the data section
Int16At(p) == (((p \div 2) * 7919) % 2001) - 1000

\* Chonker::readOffsets: the map built from the first n TOC records, a later
\* record of the same chunk replacing an earlier one
RECURSIVE readOffsets(_, _)
readOffsets(toc, n) ==
    IF n = 0 THEN << >>
    ELSE LET prev == readOffsets(toc, n - 1)
             chunk == Chunk(toc[n].chunkX, toc[n].chunkZ)
         IN  [c \in (DOMAIN prev) \cup {chunk} |->
                 IF c = chunk THEN toc[n].offset ELSE prev[c]]

\* ------------------------------------------------------------ chunk payload
\* the unsigned 16-bit pattern of an int16 sample
U16(v) == v % 65536

\* ChunkData::heights is std::array<i32, R*R>, value-initialised to zero.  The
\* worker's read copies sizeof(int16_t) * R*R bytes from the file over the start
\* of the array, so the array's contents are a function of the offset last read:
\* `heights` holds ZeroFilled or that offset (or Partial, after a short read),
\* and heightsAt gives element k.
\* Little-endian: the low half of element k is the int16 sample 2k, its high
\* (sign-carrying) half the sample 2k+1; bytes the read does not reach stay zero.
heightsAt(h, k) ==
    IF h = ZeroFilled THEN 0
    ELSE IF h = Partial THEN Stale
    ELSE LET lo == IF 2 * k < SamplesPerChunk THEN U16(Int16At(h + 4 * k)) ELSE 0
             hi == IF 2 * k + 1 < SamplesPerChunk THEN Int16At(h + 4 * k + 2) ELSE 0
         IN  lo + 65536 * hi

\* ------------------------------------------------------------------- Init
\* ChunkPool::ChunkPool(n) and Chonker::Chonker(n); files is the set of chunk
\* files the constructor may find on disk
InitWith(n, files) ==
    /\ pool = [s \in 0..(n - 1) |-> [chunk |-> Chunk(0, 0), heights |-> ZeroFilled]]
    /\ status = [s \in 0..(n - 1) |-> Unloaded]
    /\ loadable = [i \in 1..n |-> i - 1]
    /\ chunkToLoaded = << >>
    /\ loaded = [size |-> 0, cell |-> [i \in 0..(n - 1) |-> Uninit]]
    /\ loadedIndex = [s \in 0..(n - 1) |-> 0]
    /\ jobs = << >>
    /\ \E toc \in files : fileOffsets = readOffsets(toc, Len(toc))
    /\ wpc = [w \in Workers |-> "pop"]
    /\ wc = [w \in Workers |-> Chunk(0, 0)]
    /\ wIdx = [w \in Workers |-> 0]
    /\ wFin = [w \in Workers |-> "good"]
    /\ fault = None
    /\ requested = {}
    /\ freed = {}
    /\ ret = [op |-> None, st |-> None, idx |-> NoIndex]
    /\ ncalls = 0
    /\ stop = {}
    /\ joined = {}
    /\ dtor = "live"
    /\ pending = << >>
    /\ pushed = << >>
    /\ popped = << >>
    /\ processed = << >>
    /\ opc = Idle
    /\ wSet = [w \in Workers |-> NoIndex]

Init == InitWith(Capacity, ChunkFiles)
\* a ChunkPool constructed on its own: no file is read, fileOffsets stays empty
PoolInit == InitWith(PoolCapacity, {<< >>})

\* -------------------------------------------------------------- ChunkPool
\* the values a read of a vector cell can give: a never-written cell holds
\* any size_t
CellValues(v) == IF v = Uninit THEN 0..Wild ELSE {v}

\* ChunkPool::request as it would be if a full pool handed out the slot at
\* the front of the loaded list again instead of returning
PoolRequest_reuse(chunk) ==
    LET poolIndex == IF loadable = << >> THEN loaded.cell[0]
                     ELSE loadable[Len(loadable)]
    IN  /\ loadable' = SubSeq(loadable, 1, Len(loadable) - 1)
        /\ chunkToLoaded' =
               [c \in (DOMAIN chunkToLoaded) \cup {chunk} |->
                   IF c = chunk THEN poolIndex ELSE chunkToLoaded[c]]
        /\ loadedIndex' = IF loadable = << >> THEN loadedIndex
                          ELSE [loadedIndex EXCEPT ![poolIndex] = loaded.size]
        /\ loaded' = IF loadable = << >> THEN loaded
                     ELSE [size |-> loaded.size + 1,
                           cell |-> [loaded.cell EXCEPT ![loaded.size] = poolIndex]]
        /\ status' = [status EXCEPT ![poolIndex] = Loading]
        /\ UNCHANGED pool

\* ChunkPool::request
PoolRequest(chunk) ==
    IF loadable = << >>
    THEN UNCHANGED poolVars
    ELSE LET poolIndex == loadable[Len(loadable)]
         IN  /\ loadable' = SubSeq(loadable, 1, Len(loadable) - 1)
             /\ chunkToLoaded' =
                    [c \in (DOMAIN chunkToLoaded) \cup {chunk} |->
                        IF c = chunk THEN poolIndex ELSE chunkToLoaded[c]]
             /\ loadedIndex' = [loadedIndex EXCEPT ![poolIndex] = loaded.size]
             /\ loaded' = [size |-> loaded.size + 1,
                           cell |-> [loaded.cell EXCEPT ![loaded.size] = poolIndex]]
             /\ status' = [status EXCEPT ![poolIndex] = Loading]
             /\ UNCHANGED pool

\* ChunkPool::unload.  loaded.back() is a slot, and the code uses it as a
\* position of loaded: the swap can touch a cell at or past loaded.size()
\* (reserved storage: stale or never written), and a value read from a
\* never-written cell can later be used as an index outside the storage.
PoolUnload(chunk) ==
    IF chunk \notin DOMAIN chunkToLoaded
    THEN UNCHANGED <<poolVars, fault>>
    ELSE LET poolIndex == chunkToLoaded[chunk]
             ldIndex == loadedIndex[poolIndex]
             erased == [c \in (DOMAIN chunkToLoaded) \ {chunk} |-> chunkToLoaded[c]]
         IN  /\ chunkToLoaded' = erased
             /\ UNCHANGED pool
             /\ IF loaded.size = 0
                THEN /\ fault' = "ub"
                     /\ UNCHANGED <<status, loadable, loaded, loadedIndex>>
                ELSE \E prevIndex \in CellValues(loaded.cell[loaded.size - 1]) :
                       IF prevIndex \notin Slots
                       THEN /\ fault' = "ub"
                            /\ UNCHANGED <<status, loadable, loaded, loadedIndex>>
                       ELSE \E a \in CellValues(loaded.cell[ldIndex]),
                               b \in CellValues(loaded.cell[prevIndex]) :
                              /\ loaded' =
                                    [size |-> loaded.size - 1,
                                     cell |-> IF ldIndex = prevIndex THEN loaded.cell
                                              ELSE [loaded.cell EXCEPT ![ldIndex] = b,
                                                                       ![prevIndex] = a]]
                              /\ loadedIndex' = [loadedIndex EXCEPT ![prevIndex] = ldIndex]
                              /\ loadable' = Append(loadable, poolIndex)
                              /\ status' = [status EXCEPT ![poolIndex] = Unloaded]
                              /\ UNCHANGED fault

\* ChunkPool::getChunkStatus as it would be with operator[] in place of the
\* contains check: a chunk without a slot reads the status of slot 0
getChunkStatus_noContains(chunk) ==
    status[IF chunk \in DOMAIN chunkToLoaded THEN chunkToLoaded[chunk] ELSE 0]

\* ChunkPool::getChunkStatus
getChunkStatus(chunk) ==
    IF chunk \notin DOMAIN chunkToLoaded THEN Unloaded
    ELSE status[chunkToLoaded[chunk]]

\* ChunkPool::setChunkStatus as it would be if it stored through a slot index
\* looked up with operator[] (slot 0 for a chunk without a mapping)
setChunkStatus_noContains(chunk, s) ==
    [status EXCEPT ![IF chunk \in DOMAIN chunkToLoaded
                     THEN chunkToLoaded[chunk] ELSE 0] = s]

\* ChunkPool::setChunkStatus: the status vector after the call
setChunkStatus(chunk, s) ==
    IF chunk \notin DOMAIN chunkToLoaded THEN status
    ELSE [status EXCEPT ![chunkToLoaded[chunk]] = s]

\* ChunkPool::getPoolIndex
getPoolIndex(chunk) ==
    IF chunk \in DOMAIN chunkToLoaded THEN chunkToLoaded[chunk] ELSE NoIndex

\* ------------------------------------------------------------- ChunkQueue
\* workers blocked in cv.wait
Sleepers == {w \in Workers : wpc[w] = "sleep"}

\* cv.notify_one: one blocked consumer, if there is any, is woken and will
\* evaluate the wait's predicate again
notify_one ==
    IF Sleepers = {} THEN UNCHANGED wpc
    ELSE \E w \in Sleepers : wpc' = [wpc EXCEPT ![w] = "pop"]

\* cv.notify_all (ChunkQueue::notify_all, and the stop callback that
\* condition_variable_any::wait registers on the stop token)
notify_all == wpc' = [w \in Workers |-> IF wpc[w] = "sleep" THEN "pop" ELSE wpc[w]]

\* ChunkQueue::push as it would be on a stack: the job goes to the front
push_front(job) ==
    /\ jobs' = <<job>> \o jobs
    /\ notify_one

\* ChunkQueue::push
push(job) ==
    /\ jobs' = Append(jobs, job)
    /\ notify_one

\* the predicate of the wait in ChunkQueue::pop
waitPred(w) == w \in stop \/ jobs # << >>

\* ---------------------------------------------------- Chonker, owner thread
\* Chonker::request as it would be if it looked at the sign of c.x only
Request_xOnly(c) ==
    /\ fault = None
    /\ dtor = "live"
    /\ IF c.x < 0
       THEN UNCHANGED <<poolVars, jobs, wpc, ncalls, pushed>>
       ELSE /\ PoolRequest(c)
            /\ push(c)
            /\ ncalls' = ncalls + 1
            /\ pushed' = Append(pushed, [c |-> c, acc |-> loadable # << >>])
    /\ requested' = requested \cup {c}
    /\ UNCHANGED <<fileOffsets, raceVars, wc, wIdx, wFin, fault, freed, ret, lifeVars,
                   popped, processed>>

\* Chonker::request
Request(c) ==
    /\ fault = None
    /\ dtor = "live"
    /\ IF c.x < 0 \/ c.z < 0
       THEN UNCHANGED <<poolVars, jobs, wpc, ncalls, pushed>>
       ELSE /\ PoolRequest(c)
            /\ push(c)
            /\ ncalls' = ncalls + 1
            /\ pushed' = Append(pushed, [c |-> c, acc |-> loadable # << >>])
    /\ requested' = requested \cup {c}
    /\ UNCHANGED <<fileOffsets, raceVars, wc, wIdx, wFin, fault, freed, ret, lifeVars,
                   popped, processed>>

\* ChunkPool::unload, called by the owner of the pool
Unload(c) ==
    /\ fault = None
    /\ dtor = "live"
    /\ PoolUnload(c)
    /\ ncalls' = IF c \in DOMAIN chunkToLoaded THEN ncalls + 1 ELSE ncalls
    /\ freed' = IF Len(loadable') > Len(loadable)
                THEN freed \cup {chunkToLoaded[c]} ELSE freed
    /\ UNCHANGED <<jobs, fileOffsets, raceVars, workerVars, requested, ret, lifeVars, fifoVars>>

\* Chonker::getStatus
GetStatus(c) ==
    /\ fault = None
    /\ dtor = "live"
    /\ ret' = [op |-> "getStatus", st |-> getChunkStatus(c), idx |-> NoIndex]
    /\ UNCHANGED <<poolVars, jobs, fileOffsets, raceVars, workerVars, fault, requested, freed,
                   ncalls, lifeVars, fifoVars>>

\* Chonker::fetch as it would be if it gave a pointer for Loaded chunks only
fetch_onlyLoaded(c) ==
    IF getChunkStatus(c) # Loaded THEN NoIndex ELSE getPoolIndex(c)

\* Chonker::fetch: the slot whose ChunkData the returned pointer designates
fetch(c) ==
    IF getChunkStatus(c) = Unloaded THEN NoIndex ELSE getPoolIndex(c)

Fetch(c) ==
    /\ fault = None
    /\ dtor = "live"
    /\ ret' = [op |-> "fetch", st |-> None, idx |-> fetch(c)]
    /\ UNCHANGED <<poolVars, jobs, fileOffsets, raceVars, workerVars, fault, requested, freed,
                   ncalls, lifeVars, fifoVars>>

\* --------------------------------------------------- Chonker, worker thread
\* ChunkQueue::pop, the wait: with the mutex held the predicate is false and
\* the worker blocks on the condition variable.  (condition_variable_any
\* checks the predicate and blocks under its internal mutex, which every
\* notify takes as well: no notification falls between the two.)
WorkerSleep(w) ==
    /\ fault = None
    /\ wpc[w] = "pop"
    /\ ~waitPred(w)
    /\ wpc' = [wpc EXCEPT ![w] = "sleep"]
    /\ UNCHANGED <<poolVars, jobs, fileOffsets, raceVars, wc, wIdx, wFin, fault, requested,
                   freed, ret, ncalls, lifeVars, fifoVars>>

\* ChunkQueue::pop as it would be on a stack: it takes jobs.back()
WorkerPop_back(w) ==
    /\ fault = None
    /\ wpc[w] = "pop"
    /\ waitPred(w)
    /\ ~(w \in stop /\ jobs = << >>)
    /\ wc' = [wc EXCEPT ![w] = jobs[Len(jobs)]]
    /\ jobs' = SubSeq(jobs, 1, Len(jobs) - 1)
    /\ popped' = Append(popped, jobs[Len(jobs)])
    /\ wpc' = [wpc EXCEPT ![w] = "resolve"]
    /\ UNCHANGED <<poolVars, fileOffsets, raceVars, wIdx, wFin, fault, requested, freed, ret,
                   ncalls, lifeVars, pushed, processed>>

\* ChunkQueue::pop returning true: the wait ends and it is not the case that
\* stop is requested with no job queued; the front job is moved out
WorkerPop(w) ==
    /\ fault = None
    /\ wpc[w] = "pop"
    /\ waitPred(w)
    /\ ~(w \in stop /\ jobs = << >>)
    /\ wc' = [wc EXCEPT ![w] = Head(jobs)]
    /\ jobs' = Tail(jobs)
    /\ popped' = Append(popped, Head(jobs))
    /\ wpc' = [wpc EXCEPT ![w] = "resolve"]
    /\ UNCHANGED <<poolVars, fileOffsets, raceVars, wIdx, wFin, fault, requested, freed, ret,
                   ncalls, lifeVars, pushed, processed>>

\* ChunkQueue::pop as it would be without the wait: it returns false whenever
\* no job is queued
WorkerExit_whenEmpty(w) ==
    /\ fault = None
    /\ wpc[w] = "pop"
    /\ jobs = << >>
    /\ wpc' = [wpc EXCEPT ![w] = "exit"]
    /\ UNCHANGED <<poolVars, jobs, fileOffsets, raceVars, wc, wIdx, wFin, fault, requested,
                   freed, ret, ncalls, lifeVars, fifoVars>>

\* ChunkQueue::pop as it would be if it returned false as soon as stop is
\* requested, whatever is queued
WorkerExit_whenStopped(w) ==
    /\ fault = None
    /\ wpc[w] = "pop"
    /\ w \in stop
    /\ wpc' = [wpc EXCEPT ![w] = "exit"]
    /\ UNCHANGED <<poolVars, jobs, fileOffsets, raceVars, wc, wIdx, wFin, fault, requested,
                   freed, ret, ncalls, lifeVars, fifoVars>>

\* ChunkQueue::pop returning false, and with it the end of Chonker::worker:
\* stop requested and no job queued
WorkerExit(w) ==
    /\ fault = None
    /\ wpc[w] = "pop"
    /\ waitPred(w)
    /\ w \in stop /\ jobs = << >>
    /\ wpc' = [wpc EXCEPT ![w] = "exit"]
    /\ UNCHANGED <<poolVars, jobs, fileOffsets, raceVars, wc, wIdx, wFin, fault, requested,
                   freed, ret, ncalls, lifeVars, fifoVars>>

\* pool.getPoolIndex(c) and the `very bad` assertion.  With no index the
\* build with assertions aborts; the build without them (NDEBUG) reads the
\* empty optional's storage, an indeterminate size_t.
WorkerResolve(w) ==
    /\ fault = None
    /\ wpc[w] = "resolve"
    /\ IF getPoolIndex(wc[w]) # NoIndex
       THEN /\ wIdx' = [wIdx EXCEPT ![w] = getPoolIndex(wc[w])]
            /\ wpc' = [wpc EXCEPT ![w] = "read"]
            /\ UNCHANGED fault
       ELSE \/ /\ fault' = "very bad"
               /\ UNCHANGED <<wIdx, wpc>>
            \/ \E i \in 0..Wild :
                 IF i \in Slots
                 THEN /\ wIdx' = [wIdx EXCEPT ![w] = i]
                      /\ wpc' = [wpc EXCEPT ![w] = "read"]
                      /\ UNCHANGED fault
                 ELSE /\ fault' = "ub"
                      /\ UNCHANGED <<wIdx, wpc>>
    /\ UNCHANGED <<poolVars, jobs, fileOffsets, raceVars, wc, wFin, requested, freed, ret,
                   ncalls, lifeVars, fifoVars>>

\* fileOffsets.at(data.chunk), seekg and read into data.heights.  at() throws
\* out of a noexcept function when the chunk has no offset (std::terminate).
\* A read that fails (the file cannot be opened) copies nothing and leaves
\* fin failed; a read that meets the end of the file early copies what there
\* is and leaves fin failed as well; the code does not look at fin.
WorkerRead(w) ==
    /\ fault = None
    /\ wpc[w] = "read"
    /\ LET data == pool[wIdx[w]]
       IN  IF data.chunk \notin DOMAIN fileOffsets
           THEN /\ fault' = "terminate"
                /\ UNCHANGED <<pool, wpc, wFin>>
           ELSE /\ \E fin \in {"good", "fail", "short"} :
                     /\ wFin' = [wFin EXCEPT ![w] = fin]
                     /\ pool' = [pool EXCEPT ![wIdx[w]].heights =
                                    CASE fin = "good" -> fileOffsets[data.chunk]
                                      [] fin = "short" -> Partial
                                      [] fin = "fail" -> @]
                /\ wpc' = [wpc EXCEPT ![w] = "publish"]
                /\ UNCHANGED fault
    /\ UNCHANGED <<status, loadable, chunkToLoaded, loaded, loadedIndex, jobs,
                   fileOffsets, raceVars, wc, wIdx, requested, freed, ret, ncalls, lifeVars,
                   fifoVars>>

\* the end of the loop body as it would be if the worker looked at fin and
\* left the status alone after a read that failed
WorkerPublish_checked(w) ==
    /\ fault = None
    /\ wpc[w] = "publish"
    /\ status' = IF wFin[w] = "good" THEN setChunkStatus(wc[w], Loaded) ELSE status
    /\ wpc' = [wpc EXCEPT ![w] = "pop"]
    /\ wFin' = [wFin EXCEPT ![w] = "good"]
    /\ processed' = Append(processed,
                           [c |-> wc[w], marked |-> wc[w] \in DOMAIN chunkToLoaded])
    /\ UNCHANGED <<pool, loadable, chunkToLoaded, loaded, loadedIndex, jobs,
                   fileOffsets, raceVars, wc, wIdx, fault, requested, freed, ret, ncalls,
                   lifeVars, pushed, popped>>

\* pool.setChunkStatus(c, ChunkStatus::Loaded), then back to the top of the
\* loop (fin goes out of scope)
WorkerPublish(w) ==
    /\ fault = None
    /\ wpc[w] = "publish"
    /\ status' = setChunkStatus(wc[w], Loaded)
    /\ wpc' = [wpc EXCEPT ![w] = "pop"]
    /\ wFin' = [wFin EXCEPT ![w] = "good"]
    /\ processed' = Append(processed,
                           [c |-> wc[w], marked |-> wc[w] \in DOMAIN chunkToLoaded])
    /\ UNCHANGED <<pool, loadable, chunkToLoaded, loaded, loadedIndex, jobs,
                   fileOffsets, raceVars, wc, wIdx, fault, requested, freed, ret, ncalls,
                   lifeVars, pushed, popped>>

\* ------------------------------------------------ destruction of the Chonker
\* the next worker, in the order of the workers vector, that is not in done
NextWorker(done) == CHOOSE w \in Workers \ done : \A v \in Workers \ done : w <= v

\* ~Chonker, first statement: queue.notify_all()
DtorNotifyAll ==
    /\ fault = None
    /\ dtor = "live"
    /\ notify_all
    /\ dtor' = "stopping"
    /\ UNCHANGED <<poolVars, jobs, fileOffsets, raceVars, wc, wIdx, wFin, fault, requested,
                   freed, ret, ncalls, stop, joined, pending, fifoVars>>

\* w.request_stop() as it would act on a wait that has no stop token (a plain
\* condition_variable): the stop state is set and nobody is notified
DtorRequestStop_noWake ==
    /\ fault = None
    /\ dtor = "stopping"
    /\ stop' = stop \cup {NextWorker(stop)}
    /\ pending' = jobs
    /\ dtor' = IF stop' = Workers THEN "joining" ELSE "stopping"
    /\ UNCHANGED <<poolVars, jobs, fileOffsets, raceVars, workerVars, fault, requested,
                   freed, ret, ncalls, joined, fifoVars>>

\* ~Chonker, the loop: w.request_stop() sets the stop state of the worker's
\* token and runs the callback its wait registered, which notifies the
\* condition variable
DtorRequestStop ==
    /\ fault = None
    /\ dtor = "stopping"
    /\ stop' = stop \cup {NextWorker(stop)}
    /\ pending' = jobs
    /\ notify_all
    /\ dtor' = IF stop' = Workers THEN "joining" ELSE "stopping"
    /\ UNCHANGED <<poolVars, jobs, fileOffsets, raceVars, wc, wIdx, wFin, fault, requested,
                   freed, ret, ncalls, joined, fifoVars>>

\* destruction of `workers` as it would be with detached threads: it does
\* not wait for the thread to leave Chonker::worker
DtorJoin_detached ==
    /\ fault = None
    /\ dtor = "joining"
    /\ joined' = joined \cup {NextWorker(joined)}
    /\ dtor' = IF joined' = Workers THEN "releasing" ELSE "joining"
    /\ UNCHANGED <<poolVars, jobs, fileOffsets, raceVars, workerVars, fault, requested,
                   freed, ret, ncalls, stop, pending, fifoVars>>

\* destruction of the member `workers`, declared last and so destroyed
\* first: ~jthread requests stop (already done) and joins, returning when
\* the thread has left Chonker::worker
DtorJoin ==
    /\ fault = None
    /\ dtor = "joining"
    /\ wpc[NextWorker(joined)] = "exit"
    /\ joined' = joined \cup {NextWorker(joined)}
    /\ dtor' = IF joined' = Workers THEN "releasing" ELSE "joining"
    /\ UNCHANGED <<poolVars, jobs, fileOffsets, raceVars, workerVars, fault, requested,
                   freed, ret, ncalls, stop, pending, fifoVars>>

\* destruction of the members fileOffsets, queue and pool, in this order
DtorRelease ==
    /\ fault = None
    /\ dtor = "releasing"
    /\ dtor' = "released"
    /\ UNCHANGED <<poolVars, jobs, fileOffsets, raceVars, workerVars, fault, requested,
                   freed, ret, ncalls, stop, joined, pending, fifoVars>>

\* ------------------------------------- the threads, operation by operation
\* None of the pool's members is guarded by a mutex (the queue's mutex guards
\* jobs only), so the owner thread's calls and the worker's lookups interleave
\* at the grain of the operations on chunkToLoaded.

\* Chonker::request up to chunkToLoaded[chunk] = poolIndex in ChunkPool::request:
\* the owner thread is inside the insertion (which may rehash the table)
RequestEnter(c) ==
    /\ fault = None
    /\ dtor = "live"
    /\ opc = Idle
    /\ c.x >= 0 /\ c.z >= 0
    /\ loadable # << >>
    /\ opc' = [at |-> "insert", chunk |-> c]
    /\ UNCHANGED <<poolVars, jobs, fileOffsets, workerVars, fault, requested, freed,
                   ret, ncalls, lifeVars, fifoVars, wSet>>

\* the insertion is done; the rest of ChunkPool::request, then queue.push
RequestLeave ==
    /\ fault = None
    /\ opc.at = "insert"
    /\ PoolRequest(opc.chunk)
    /\ push(opc.chunk)
    /\ ncalls' = ncalls + 1
    /\ pushed' = Append(pushed, [c |-> opc.chunk, acc |-> loadable # << >>])
    /\ requested' = requested \cup {opc.chunk}
    /\ opc' = Idle
    /\ UNCHANGED <<fileOffsets, wc, wIdx, wFin, fault, freed, ret, lifeVars,
                   popped, processed, wSet>>

\* Chonker::request where it does not touch chunkToLoaded: a negative
\* coordinate, or the free-list empty
RequestNoInsert(c) ==
    /\ opc = Idle
    /\ (c.x < 0 \/ c.z < 0 \/ loadable = << >>)
    /\ Request(c)

\* ChunkPool::unload up to chunkToLoaded.erase(chunk): the owner thread is
\* inside the erasure
UnloadEnter(c) ==
    /\ fault = None
    /\ dtor = "live"
    /\ opc = Idle
    /\ c \in DOMAIN chunkToLoaded
    /\ opc' = [at |-> "erase", chunk |-> c]
    /\ UNCHANGED <<poolVars, jobs, fileOffsets, workerVars, fault, requested, freed,
                   ret, ncalls, lifeVars, fifoVars, wSet>>

\* the erasure is done; the rest of ChunkPool::unload
UnloadLeave ==
    /\ fault = None
    /\ opc.at = "erase"
    /\ PoolUnload(opc.chunk)
    /\ ncalls' = ncalls + 1
    /\ freed' = IF Len(loadable') > Len(loadable)
                THEN freed \cup {chunkToLoaded[opc.chunk]} ELSE freed
    /\ opc' = Idle
    /\ UNCHANGED <<jobs, fileOffsets, workerVars, requested, ret, lifeVars, fifoVars,
                   wSet>>

\* what contains(chunk) followed by at(chunk) can give a worker (NoIndex for
\* `not contained`): the mapping's answer, or, when they run while the owner
\* thread is inside an insertion or erasure, anything at all - a data race on
\* the unordered_map
LookupResults(chunk) ==
    IF opc = Idle THEN {getPoolIndex(chunk)} ELSE {NoIndex} \cup (0..Wild)

\* pool.getPoolIndex(c), the `very bad` assertion and pool.getChunkData
WorkerGetPoolIndex(w) ==
    /\ fault = None
    /\ wpc[w] = "resolve"
    /\ \E r \in LookupResults(wc[w]) :
          IF r # NoIndex
          THEN IF r \in Slots
               THEN /\ wIdx' = [wIdx EXCEPT ![w] = r]
                    /\ wpc' = [wpc EXCEPT ![w] = "read"]
                    /\ UNCHANGED fault
               ELSE /\ fault' = "ub"
                    /\ UNCHANGED <<wIdx, wpc>>
          ELSE \/ /\ fault' = "very bad"
                  /\ UNCHANGED <<wIdx, wpc>>
               \/ \E i \in 0..Wild :
                    IF i \in Slots
                    THEN /\ wIdx' = [wIdx EXCEPT ![w] = i]
                         /\ wpc' = [wpc EXCEPT ![w] = "read"]
                         /\ UNCHANGED fault
                    ELSE /\ fault' = "ub"
                         /\ UNCHANGED <<wIdx, wpc>>
    /\ UNCHANGED <<poolVars, jobs, fileOffsets, raceVars, wc, wFin, requested, freed,
                   ret, ncalls, lifeVars, fifoVars>>

\* ChunkPool::setChunkStatus, the contains check and chunkToLoaded.at(chunk)
WorkerSetStatusLookup(w) ==
    /\ fault = None
    /\ wpc[w] = "publish"
    /\ \E r \in LookupResults(wc[w]) :
          IF r \in Slots \cup {NoIndex}
          THEN /\ wSet' = [wSet EXCEPT ![w] = r]
               /\ wpc' = [wpc EXCEPT ![w] = "store"]
               /\ UNCHANGED fault
          ELSE /\ fault' = "ub"
               /\ UNCHANGED <<wSet, wpc>>
    /\ UNCHANGED <<poolVars, jobs, fileOffsets, opc, wc, wIdx, wFin, requested,
                   freed, ret, ncalls, lifeVars, fifoVars>>

\* ChunkPool::setChunkStatus, status[poolIndex].store(s) (or the return where
\* the chunk was not contained), then back to the top of the worker's loop
WorkerSetStatusStore(w) ==
    /\ fault = None
    /\ wpc[w] = "store"
    /\ status' = IF wSet[w] = NoIndex THEN status
                 ELSE [status EXCEPT ![wSet[w]] = Loaded]
    /\ wpc' = [wpc EXCEPT ![w] = "pop"]
    /\ wFin' = [wFin EXCEPT ![w] = "good"]
    /\ wSet' = [wSet EXCEPT ![w] = NoIndex]
    /\ processed' = Append(processed, [c |-> wc[w], marked |-> wSet[w] # NoIndex])
    /\ UNCHANGED <<pool, loadable, chunkToLoaded, loaded, loadedIndex, jobs,
                   fileOffsets, opc, wc, wIdx, fault, requested, freed, ret, ncalls,
                   lifeVars, pushed, popped>>

\* --------------------------------------------------- a ChunkPool on its own
\* ChunkPool::request called directly
PoolCallRequest(c) ==
    /\ fault = None
    /\ PoolRequest(c)
    /\ ncalls' = ncalls + 1
    /\ requested' = requested \cup {c}
    /\ UNCHANGED <<jobs, fileOffsets, raceVars, workerVars, fault, freed, ret, lifeVars,
                   fifoVars>>

\* ChunkPool::setChunkStatus(c, Loaded) called directly
PoolCallSetStatus(c) ==
    /\ fault = None
    /\ status' = setChunkStatus(c, Loaded)
    /\ UNCHANGED <<pool, loadable, chunkToLoaded, loaded, loadedIndex, jobs,
                   fileOffsets, raceVars, workerVars, fault, requested, freed, ret, ncalls,
                   lifeVars, fifoVars>>

\* ------------------------------------------------------------------- Spec
\* the Chonker: owner thread and worker thread
Next ==
    \/ \E c \in Coords : ncalls < MaxCalls /\ Request(c)
    \/ \E c \in Coords : ncalls < MaxCalls /\ Unload(c)
    \/ \E w \in Workers : WorkerSleep(w)
    \/ \E w \in Workers : WorkerPop(w)
    \/ \E w \in Workers : WorkerResolve(w)
    \/ \E w \in Workers : WorkerRead(w)
    \/ \E w \in Workers : WorkerPublish(w)

Spec == Init /\ [][Next]_vars

\* the Chonker, its owner also polling getStatus and fetch
QueryNext ==
    \/ \E c \in Coords : ncalls < MaxQueryCalls /\ Request(c)
    \/ \E c \in Coords : ncalls < MaxQueryCalls /\ Unload(c)
    \/ \E w \in Workers : WorkerSleep(w)
    \/ \E w \in Workers : WorkerPop(w)
    \/ \E w \in Workers : WorkerResolve(w)
    \/ \E w \in Workers : WorkerRead(w)
    \/ \E w \in Workers : WorkerPublish(w)
    \/ \E c \in Coords : GetStatus(c)
    \/ \E c \in Coords : Fetch(c)

QuerySpec == Init /\ [][QueryNext]_vars

\* a ChunkPool driven through its own interface
PoolNext ==
    \/ \E c \in PoolCoords : ncalls < MaxPoolCalls /\ PoolCallRequest(c)
    \/ \E c \in PoolCoords : ncalls < MaxPoolCalls /\ Unload(c)
    \/ \E c \in PoolCoords : PoolCallSetStatus(c)

PoolSpec == PoolInit /\ [][PoolNext]_vars

\* the Chonker as the engine uses it: requests and worker steps, no unload
LoadNext ==
    \/ \E c \in Coords : ncalls < MaxCalls /\ Request(c)
    \/ \E w \in Workers : WorkerSleep(w)
    \/ \E w \in Workers : WorkerPop(w)
    \/ \E w \in Workers : WorkerResolve(w)
    \/ \E w \in Workers : WorkerRead(w)
    \/ \E w \in Workers : WorkerPublish(w)

LoadSpec == Init /\ [][LoadNext]_vars

\* the steps of the worker thread
WorkerNext ==
    \/ \E w \in Workers : WorkerSleep(w)
    \/ \E w \in Workers : WorkerPop(w)
    \/ \E w \in Workers : WorkerResolve(w)
    \/ \E w \in Workers : WorkerRead(w)
    \/ \E w \in Workers : WorkerPublish(w)

\* LoadSpec with a scheduler that lets the worker thread run whenever it can
FairLoadSpec == LoadSpec /\ WF_vars(WorkerNext)

\* the whole life of a Chonker: requests, the worker thread, destruction
LifeNext ==
    \/ \E c \in Coords : ncalls < MaxLifeCalls /\ Request(c)
    \/ \E w \in Workers : WorkerSleep(w)
    \/ \E w \in Workers : WorkerPop(w)
    \/ \E w \in Workers : WorkerExit(w)
    \/ \E w \in Workers : WorkerResolve(w)
    \/ \E w \in Workers : WorkerRead(w)
    \/ \E w \in Workers : WorkerPublish(w)
    \/ DtorNotifyAll
    \/ DtorRequestStop
    \/ DtorJoin
    \/ DtorRelease

LifeSpec == Init /\ [][LifeNext]_vars

\* LifeSpec with a scheduler that lets the worker thread run whenever it
\* can, and lets the owner thread go on with a destruction it has begun
FairLifeSpec ==
    /\ LifeSpec
    /\ WF_vars(WorkerNext \/ \E w \in Workers : WorkerExit(w))
    /\ WF_vars(DtorRequestStop \/ DtorJoin \/ DtorRelease)

\* the Chonker asked for chunks with coordinates of either sign, its owner
\* polling getStatus
SignedNext ==
    \/ \E c \in SignedCoords : ncalls < MaxSignedCalls /\ Request(c)
    \/ \E w \in Workers : WorkerSleep(w)
    \/ \E w \in Workers : WorkerPop(w)
    \/ \E w \in Workers : WorkerResolve(w)
    \/ \E w \in Workers : WorkerRead(w)
    \/ \E w \in Workers : WorkerPublish(w)
    \/ \E c \in SignedCoords : GetStatus(c)

SignedSpec == Init /\ [][SignedNext]_vars

\* the Chonker with the worker's setChunkStatus followed step by step: its
\* lookup, then its store; the owner's calls each in one piece
StepNext ==
    \/ \E c \in Coords : ncalls < MaxRaceCalls /\ Request(c)
    \/ \E c \in Coords : ncalls < MaxRaceCalls /\ Unload(c)
    \/ \E w \in Workers : WorkerSleep(w)
    \/ \E w \in Workers : WorkerPop(w)
    \/ \E w \in Workers : WorkerResolve(w)
    \/ \E w \in Workers : WorkerRead(w)
    \/ \E w \in Workers : WorkerSetStatusLookup(w)
    \/ \E w \in Workers : WorkerSetStatusStore(w)

StepSpec == Init /\ [][StepNext]_vars

\* the same with the owner's insertions and erasures followed as well
RaceNext ==
    \/ \E c \in Coords : ncalls < MaxRaceCalls /\ RequestEnter(c)
    \/ RequestLeave
    \/ \E c \in Coords : ncalls < MaxRaceCalls /\ RequestNoInsert(c)
    \/ \E c \in Coords : ncalls < MaxRaceCalls /\ UnloadEnter(c)
    \/ UnloadLeave
    \/ \E w \in Workers : WorkerSleep(w)
    \/ \E w \in Workers : WorkerPop(w)
    \/ \E w \in Workers : WorkerGetPoolIndex(w)
    \/ \E w \in Workers : WorkerRead(w)
    \/ \E w \in Workers : WorkerSetStatusLookup(w)
    \/ \E w \in Workers : WorkerSetStatusStore(w)

RaceSpec == Init /\ [][RaceNext]_vars

\* ================================================================= claims
\* what a poll of coordinate c observes, spelled on the pool's fields
StatusOf(c) ==
    IF c \in DOMAIN chunkToLoaded THEN status[chunkToLoaded[c]] ELSE Unloaded
Rank(s) == CASE s = Unloaded -> 0 [] s = Loading -> 1 [] s = Loaded -> 2

\* C1: Chonker::request(c) called with the free-list empty leaves the job
\* queue unchanged, and a coordinate that was Unloaded stays Unloaded.
C1_FullPoolDropsRequest ==
    [][\A c \in Coords :
         (Request(c) /\ loadable = << >>) =>
            /\ jobs' = jobs
            /\ (StatusOf(c) = Unloaded => StatusOf(c)' = Unloaded)]_vars

\* C2: ChunkPool::request(c) for a coordinate that already has a slot is a
\* no-op: same slot, free-list not shrunk, no new entry in the loaded list.
C2_PoolRequestIdempotent ==
    [][\A c \in PoolCoords :
         (PoolCallRequest(c) /\ c \in DOMAIN chunkToLoaded) =>
            /\ chunkToLoaded'[c] = chunkToLoaded[c]
            /\ loadable' = loadable
            /\ loaded' = loaded]_vars

\* C3: Chonker::request(c) for a coordinate whose status is Loading or Loaded
\* enqueues no job and leaves the status observed for c as it was.
C3_SecondRequestNoOp ==
    [][\A c \in Coords :
         (Request(c) /\ StatusOf(c) \in {Loading, Loaded}) =>
            /\ jobs' = jobs
            /\ StatusOf(c)' = StatusOf(c)]_vars

\* C4: in a pool of capacity N whose N slots are held by N distinct
\* coordinates, a request for one more coordinate fails: the loaded list
\* stays at N entries, every mapping and status is as before, the new
\* coordinate is Unloaded.
C4_CapacityInvariant ==
    [][\A d \in PoolCoords :
         (/\ PoolCallRequest(d)
          /\ Cardinality(DOMAIN chunkToLoaded) = capacity
          /\ d \notin DOMAIN chunkToLoaded) =>
            /\ loaded'.size = capacity
            /\ loaded.size = capacity
            /\ chunkToLoaded' = chunkToLoaded
            /\ status' = status
            /\ StatusOf(d)' = Unloaded]_vars

\* N + 1 counted calls, N coordinates mapped and one requested coordinate
\* without a slot: the last request met a full pool.
C4_Witness ==
    /\ ncalls = capacity + 1
    /\ Cardinality(DOMAIN chunkToLoaded) = capacity
    /\ \E d \in requested : d \notin DOMAIN chunkToLoaded

\* C5: when the worker completes the job for a coordinate c that has a TOC
\* record (its read having succeeded), the payload of the slot mapped to c
\* holds the block stored at the offset recorded for c: element k of heights
\* is sample k of that block.
C5_FormatRoundTrip ==
    [][\A w \in Workers :
         (/\ WorkerPublish(w)
          /\ wFin[w] = "good"
          /\ wc[w] \in DOMAIN fileOffsets
          /\ wc[w] \in DOMAIN chunkToLoaded) =>
            \A k \in 0..(SamplesPerChunk - 1) :
                heightsAt(pool[chunkToLoaded[wc[w]]].heights, k)
                    = Int16At(fileOffsets[wc[w]] + 2 * k)]_vars

\* everything but the value returned to the owner thread
stateVars == <<pool, status, loadable, chunkToLoaded, loaded, loadedIndex, jobs,
               fileOffsets, wpc, wc, wIdx, wFin, fault>>

\* C6: fetch(c) returns nullptr exactly when the status of c is Unloaded;
\* when it is Loading or Loaded it returns the payload of the slot mapped to
\* c; it changes neither pool nor queue.
C6_Fetch ==
    [][\A c \in Coords :
         Fetch(c) =>
            /\ ret'.op = "fetch"
            /\ (ret'.idx = NoIndex) <=> (StatusOf(c) = Unloaded)
            /\ StatusOf(c) \in {Loading, Loaded} => ret'.idx = chunkToLoaded[c]
            /\ UNCHANGED stateVars]_vars

\* fetch has returned the slot of a coordinate that is still loading
C6_Witness ==
    /\ ret.op = "fetch"
    /\ ret.idx \in Slots
    /\ \E c \in DOMAIN chunkToLoaded :
          chunkToLoaded[c] = ret.idx /\ status[ret.idx] = Loading

\* C7: getStatus(c) returns Unloaded when c has no coordinate-to-slot
\* mapping and the status field of the slot mapped to c otherwise; it
\* changes no state.
C7_GetStatus ==
    [][\A c \in Coords :
         GetStatus(c) =>
            /\ ret'.op = "getStatus"
            /\ c \notin DOMAIN chunkToLoaded => ret'.st = Unloaded
            /\ c \in DOMAIN chunkToLoaded => ret'.st = status[chunkToLoaded[c]]
            /\ UNCHANGED stateVars]_vars

\* getStatus has returned Loaded, a mapped coordinate being Loaded and
\* another coordinate having no mapping
C7_Witness ==
    /\ ret.op = "getStatus"
    /\ ret.st = Loaded
    /\ \E c \in DOMAIN chunkToLoaded : status[chunkToLoaded[c]] = Loaded
    /\ \E c \in Coords : c \notin DOMAIN chunkToLoaded

\* C8: with requests and worker steps only (no unload), the status observed
\* for a coordinate never moves backwards in Unloaded, Loading, Loaded.
C8_StatusMonotone ==
    [][\A c \in Coords : Rank(StatusOf(c)') >= Rank(StatusOf(c))]_vars

\* C9: getStatus(c) gives Loaded only if request was called for c before,
\* and a coordinate that has just been given a slot (recycled or not) is
\* observed Loading, not Loaded.
C9_LoadedOnlyIfRequested ==
    /\ [](\A c \in Coords : getChunkStatus(c) = Loaded => c \in requested)
    /\ [][\A c \in Coords :
            (Request(c) /\ chunkToLoaded' # chunkToLoaded) =>
                getChunkStatus(c)' = Loading]_vars

\* a requested coordinate is Loaded in a slot that was freed by an unload
\* before, while some coordinate was never requested
C9_Witness ==
    /\ \E c \in DOMAIN chunkToLoaded :
          /\ getChunkStatus(c) = Loaded
          /\ chunkToLoaded[c] \in freed
          /\ c \in requested
    /\ \E n \in Coords : n \notin requested

\* C10: unload(c) of a Loaded coordinate returns with c Unloaded and c's slot
\* on top of the free-list, and a request for a coordinate made with a slot
\* on the free-list (such as the one just freed, whatever the other slots
\* hold) succeeds: it gets the top slot, in status Loading.
C10_RoundTripEviction ==
    [][/\ \A c \in PoolCoords :
            (Unload(c) /\ StatusOf(c) = Loaded) =>
                /\ fault' = None
                /\ StatusOf(c)' = Unloaded
                /\ loadable' = Append(loadable, chunkToLoaded[c])
       /\ \A d \in PoolCoords :
            (PoolCallRequest(d) /\ loadable # << >>) =>
                /\ d \in DOMAIN chunkToLoaded'
                /\ chunkToLoaded'[d] = loadable[Len(loadable)]
                /\ StatusOf(d)' = Loading]_vars

\* the slots listed in ChunkPool::loaded
LoadedList == {loaded.cell[i] : i \in 0..(loaded.size - 1)}

\* C11: unload(c) of a mapped coordinate removes exactly the mapping of c,
\* removes exactly c's slot from the loaded list (every slot that stays is
\* found at the position recorded for it), pushes the slot onto the
\* free-list and stores Unloaded on it; unload(c) of an unmapped coordinate
\* changes nothing.
C11_UnloadContract ==
    [][\A c \in PoolCoords :
         Unload(c) =>
            IF c \in DOMAIN chunkToLoaded
            THEN /\ fault' = None
                 /\ chunkToLoaded' =
                       [d \in (DOMAIN chunkToLoaded) \ {c} |-> chunkToLoaded[d]]
                 /\ loaded'.size = loaded.size - 1
                 /\ LoadedList' = LoadedList \ {chunkToLoaded[c]}
                 /\ \A i \in 0..(loaded'.size - 1) :
                       /\ loaded'.cell[i] \in Slots
                       /\ loadedIndex'[loaded'.cell[i]] = i
                 /\ loadable' = Append(loadable, chunkToLoaded[c])
                 /\ status' = [status EXCEPT ![chunkToLoaded[c]] = Unloaded]
            ELSE UNCHANGED poolVars]_vars

\* the coordinates pushed, in the order of the pushes
PushedCoords == [i \in 1..Len(pushed) |-> pushed[i].c]

\* C12: the coordinates the consumer's successive pops have returned,
\* followed by those still queued, are the coordinates pushed, in the order
\* they were pushed (none lost, none twice); each pop returns the oldest
\* coordinate not yet returned.
C12_QueueFIFO ==
    /\ [](popped \o jobs = PushedCoords)
    /\ [][\A w \in Workers :
            WorkerPop(w) =>
                /\ wc'[w] = PushedCoords[Len(popped) + 1]
                /\ popped' = Append(popped, wc'[w])]_vars

\* two different coordinates were pushed and both have been popped
C12_Witness ==
    /\ Len(pushed) = 2
    /\ Len(popped) = 2
    /\ popped[1] # popped[2]
    /\ jobs = << >>

\* C13: pop returns false only with stop requested and the queue empty at
\* that moment; a job leaves the queue only through a pop that returns it,
\* and that job is the front one of a non-empty queue; a consumer is blocked
\* only while no job is queued and stop is not requested.
C13_PopContract ==
    /\ [][\A w \in Workers :
            /\ (wpc[w] # "exit" /\ wpc'[w] = "exit") => (w \in stop /\ jobs = << >>)
            /\ (popped' # popped) =>
                  /\ jobs # << >>
                  /\ popped' = Append(popped, Head(jobs))
                  /\ jobs' = Tail(jobs)
            /\ (Len(jobs') < Len(jobs)) => popped' # popped]_vars
    /\ [](\A w \in Workers : wpc[w] = "sleep" => (jobs = << >> /\ w \notin stop))

\* pop has returned false to a worker that had been given every job pushed
C13_Witness ==
    /\ \E w \in Workers : wpc[w] = "exit"
    /\ Len(popped) = MaxLifeCalls
    /\ dtor = "joining"

\* C14: when a worker leaves its loop the queue is empty and every job that
\* was pushed - those still queued when stop was requested included - has
\* been popped and has had the loop body run to its end, in the order pushed.
C14_DrainBeforeExit ==
    /\ [][\A w \in Workers :
            (wpc[w] # "exit" /\ wpc'[w] = "exit") =>
                /\ jobs = << >>
                /\ popped = PushedCoords
                /\ [i \in 1..Len(processed) |-> processed[i].c] = PushedCoords]_vars
    /\ [](\A w \in Workers : (w \in stop /\ jobs # << >>) => wpc[w] # "exit")

\* stop was requested with jobs still queued, and the worker has left its
\* loop after processing every job
C14_Witness ==
    /\ \E w \in Workers : wpc[w] = "exit"
    /\ pending # << >>
    /\ Len(processed) = Len(pushed)
    /\ jobs = << >>

\* C15: once the destructor has signalled shutdown (notify_all, then
\* request_stop on each worker), every worker thread comes to an end: it
\* leaves its loop, or the whole process has died of a fault before.  No
\* worker stays blocked in pop, the one that went back to waiting between
\* notify_all and request_stop included.
C15_CancellationLiveness ==
    (dtor # "live") ~>
        (\/ fault # None
         \/ /\ \A w \in Workers : wpc[w] = "exit"
            /\ Sleepers = {})

\* notify_all has been sent, stop is not yet requested, and the worker is
\* blocked in pop on an empty queue
C15_Witness ==
    /\ dtor = "stopping"
    /\ stop = {}
    /\ \A w \in Workers : wpc[w] = "sleep"
    /\ jobs = << >>

\* a step of a worker thread
WorkerStep == WorkerNext \/ \E w \in Workers : WorkerExit(w)

\* C16: the queue, the TOC map and the pool are released only after every
\* worker thread has been joined, having left Chonker::worker; no step of a
\* worker is taken once they are released.
C16_JoinBeforeRelease ==
    /\ [](dtor \in {"releasing", "released"} =>
             /\ joined = Workers
             /\ \A w \in Workers : wpc[w] = "exit")
    /\ [][WorkerStep => (dtor # "released" /\ dtor' # "released")]_vars

\* the Chonker is destroyed after its worker processed a job that was still
\* queued when stop was requested
C16_Witness ==
    /\ dtor = "released"
    /\ joined = Workers
    /\ pending # << >>
    /\ Len(processed) = Len(pushed)

\* the process has exited over a dequeued coordinate that the file does not
\* describe
ExitedOnMissingRecord ==
    /\ fault # None
    /\ \E i \in 1..Len(popped) : popped[i] \notin DOMAIN fileOffsets

\* C17: with the worker scheduled fairly and no unload, every coordinate
\* that the pool has given a slot is eventually observed Loaded: its load is
\* not abandoned, unless the process exits over a coordinate without a TOC
\* record.
C17_LoadCompletion ==
    \A c \in Coords :
        (c \in DOMAIN chunkToLoaded) ~> (StatusOf(c) = Loaded \/ ExitedOnMissingRecord)

\* the calls of request in which the pool gave c a slot, and the jobs at whose
\* end c was marked Loaded, by their places in the histories
AcceptedAt(c) == {i \in 1..Len(pushed) : pushed[i].c = c /\ pushed[i].acc}
MarkedAt(c) == {i \in 1..Len(processed) : processed[i].c = c /\ processed[i].marked}
First(S) == CHOOSE m \in S : \A n \in S : m <= n

\* C18: with the single worker, if request(a) was accepted before request(b)
\* and b has been marked Loaded, then a was marked Loaded before b.
C18_CompletionOrder ==
    \A a \in Coords, b \in Coords :
        (/\ AcceptedAt(a) # {} /\ AcceptedAt(b) # {}
         /\ First(AcceptedAt(a)) < First(AcceptedAt(b))
         /\ MarkedAt(b) # {}) =>
            /\ MarkedAt(a) # {}
            /\ First(MarkedAt(a)) < First(MarkedAt(b))

\* two different accepted coordinates have both been marked Loaded
C18_Witness ==
    /\ Len(processed) >= 2
    /\ processed[1].c # processed[2].c
    /\ processed[1].marked /\ processed[2].marked
    /\ AcceptedAt(processed[1].c) # {} /\ AcceptedAt(processed[2].c) # {}
    /\ StatusOf(processed[1].c) = Loaded /\ StatusOf(processed[2].c) = Loaded

\* C19: as long as a coordinate stays mapped (from its request until its
\* unload) its slot does not change, whatever is requested or unloaded, a
\* repeated request(c) included: what fetch(c) designates stays c's slot.
C19_FetchStability ==
    [][\A c \in Coords :
         (c \in DOMAIN chunkToLoaded /\ c \in DOMAIN chunkToLoaded') =>
            /\ chunkToLoaded'[c] = chunkToLoaded[c]
            /\ fetch(c) # NoIndex => fetch(c)' = fetch(c)]_vars

\* C20: when the worker has dequeued a coordinate that holds a slot and has
\* no record in the TOC map, its attempt to read ends the process, and no
\* such coordinate is ever marked Loaded.
C20_MissingRecordFatal ==
    /\ [][\A w \in Workers :
            (/\ WorkerRead(w)
             /\ wc[w] \in DOMAIN chunkToLoaded
             /\ wc[w] \notin DOMAIN fileOffsets) => fault' # None]_vars
    /\ [](\A i \in 1..Len(processed) :
             processed[i].marked => processed[i].c \in DOMAIN fileOffsets)

\* C21: whatever requests the owner makes, with the pool full or not, every
\* coordinate the worker has dequeued has a coordinate-to-slot mapping, and
\* the process never dies of the worker's `very bad` assertion.
C21_ExhaustionNoCrash ==
    /\ \A w \in Workers : wpc[w] = "resolve" => wc[w] \in DOMAIN chunkToLoaded
    /\ fault # "very bad"

\* how often slot s stands on the free-list, and in the loaded list
FreeCount(s) == Cardinality({i \in 1..Len(loadable) : loadable[i] = s})
LoadedCount(s) == Cardinality({i \in 0..(loaded.size - 1) : loaded.cell[i] = s})

\* C22: every slot 0..N-1 is in exactly one of the free-list and the loaded
\* list, and there once.
C22_FreeXorLoaded ==
    \A s \in Slots : FreeCount(s) + LoadedCount(s) = 1

\* C23: a slot is the image of some coordinate in chunkToLoaded if and only
\* if it is in the loaded list.
C23_MappedIffLoaded ==
    {chunkToLoaded[c] : c \in DOMAIN chunkToLoaded} = LoadedList

\* C24: loaded[loadedIndex[s]] = s for every slot s in the loaded list, the
\* recorded position being a position of the list.
C24_LoadedIndexInverse ==
    \A i \in 0..(loaded.size - 1) :
        /\ loaded.cell[i] \in Slots
        /\ loadedIndex[loaded.cell[i]] < loaded.size
        /\ loaded.cell[loadedIndex[loaded.cell[i]]] = loaded.cell[i]

\* C29: the two indices unload uses in its swap - the recorded position of
\* the slot it unloads and the index it takes for the last entry - are
\* positions of the loaded list, smaller than its length.
C29_UnloadIndicesInRange ==
    [][\A c \in PoolCoords :
         (Unload(c) /\ c \in DOMAIN chunkToLoaded) =>
            /\ loaded.size > 0
            /\ loadedIndex[chunkToLoaded[c]] < loaded.size
            /\ \A prevIndex \in CellValues(loaded.cell[loaded.size - 1]) :
                  prevIndex < loaded.size]_vars

\* C30: whenever a coordinate c is mapped to a slot, the chunk field of that
\* slot's ChunkData equals c, so that the worker's fileOffsets lookup on
\* data.chunk is a lookup for the coordinate it dequeued.
C30_PayloadRecordsChunk ==
    /\ \A c \in DOMAIN chunkToLoaded : pool[chunkToLoaded[c]].chunk = c
    /\ \A w \in Workers :
          (wpc[w] = "read" /\ wc[w] \in DOMAIN chunkToLoaded) =>
              pool[wIdx[w]].chunk = wc[w]

\* the jobs for coordinate c that are queued or in a worker's hands
InFlight(c) ==
    Cardinality({i \in 1..Len(jobs) : jobs[i] = c})
        + Cardinality({w \in Workers :
                          wpc[w] \in {"resolve", "read", "publish"} /\ wc[w] = c})

\* C25: a coordinate has at most one job queued or being processed at any
\* time (it is enqueued once per load cycle), and no two workers are at the
\* write of the payload of the same slot.
C25_OneJobPerCoordinate ==
    /\ \A c \in Coords : InFlight(c) <= 1
    /\ \A v \in Workers, w \in Workers :
          (v # w /\ wpc[v] = "read" /\ wpc[w] = "read") => wIdx[v] # wIdx[w]

\* C28: a read that failed (file missing, or short) goes unnoticed: the
\* worker sets the status of the coordinate to Loaded all the same and the
\* process lives on; and a status is only ever Unloaded, Loading or Loaded.
C28_FailedReadStillLoaded ==
    /\ [][\A w \in Workers :
            (/\ WorkerPublish(w)
             /\ wFin[w] \in {"fail", "short"}
             /\ wc[w] \in DOMAIN chunkToLoaded) =>
                /\ fault' = None
                /\ StatusOf(wc[w])' = Loaded]_vars
    /\ [](/\ \A s \in Slots : status[s] \in ChunkStatus
          /\ \A c \in Coords : getChunkStatus(c) \in ChunkStatus)

\* the one job there was met a short read, and its coordinate is Loaded over
\* the partly written payload
C28_Witness ==
    /\ Len(pushed) = 1 /\ Len(processed) = 1
    /\ fault = None
    /\ \E c \in DOMAIN chunkToLoaded :
          /\ StatusOf(c) = Loaded
          /\ pool[chunkToLoaded[c]].heights = Partial

\* C26: the worker writes the payload of a slot only while the status of
\* that slot is Loading - so not after Loaded has been stored on it and a
\* reader may have seen it - and the slot it then stores Loaded on is the one
\* whose payload it wrote.
C26_WriteOnlyWhileLoading ==
    [][\A w \in Workers :
         /\ (WorkerRead(w) /\ wFin'[w] \in {"good", "short"}) =>
               status[wIdx[w]] = Loading
         /\ (WorkerPublish(w) /\ wc[w] \in DOMAIN chunkToLoaded) =>
               chunkToLoaded[wc[w]] = wIdx[w]]_vars

\* C27: a step of a worker leaves the free-list, the coordinate-to-slot map,
\* the loaded list and loadedIndex as they are, and changes a status only
\* in setChunkStatus, on the slot the job resolved and wrote, from Loading
\* to Loaded.
C27_WorkerFrame ==
    [][WorkerStep =>
          /\ UNCHANGED <<loadable, chunkToLoaded, loaded, loadedIndex>>
          /\ \A s \in Slots :
                status'[s] # status[s] =>
                    /\ \E w \in Workers : WorkerPublish(w) /\ s = wIdx[w]
                    /\ status[s] = Loading
                    /\ status'[s] = Loaded]_vars

\* the slots some coordinate is mapped to
MappedSlots == {chunkToLoaded[c] : c \in DOMAIN chunkToLoaded}

\* C33: through any sequence of ChunkPool::request and ChunkPool::unload calls
\* no two coordinates are mapped to the same slot and no mapped slot is on the
\* free-list; a request that maps its coordinate hands out a slot that no
\* coordinate was mapped to.
C33_MapInjectiveDisjoint ==
    /\ [](/\ \A c, d \in DOMAIN chunkToLoaded :
                chunkToLoaded[c] = chunkToLoaded[d] => c = d
          /\ \A i \in 1..Len(loadable) : loadable[i] \notin MappedSlots)
    /\ [][\A c \in PoolCoords :
            (PoolCallRequest(c) /\ chunkToLoaded' # chunkToLoaded) =>
                chunkToLoaded'[c] \notin MappedSlots]_vars

\* the pool is full again after an unload: every slot is mapped, one of them
\* was on the free-list in between, and a further request met the full pool
C33_Witness ==
    /\ Cardinality(DOMAIN chunkToLoaded) = capacity
    /\ loadable = << >>
    /\ \E c \in DOMAIN chunkToLoaded : chunkToLoaded[c] \in freed
    /\ \E d \in requested : d \notin DOMAIN chunkToLoaded
    /\ fault = None

\* a coordinate Chonker::request refuses
Negative(c) == c.x < 0 \/ c.z < 0

\* C34: Chonker::request(c) with c.x < 0 or c.z < 0 changes nothing: no slot
\* is reserved, no job is queued, no worker is woken; and the status of such a
\* coordinate is Unloaded in every state, whatever else is requested and loaded.
C34_NegativeRequestNoOp ==
    /\ [][\A c \in SignedCoords :
            (Negative(c) /\ Request(c)) =>
                UNCHANGED <<poolVars, jobs, fileOffsets, raceVars, workerVars, fault, freed,
                            ret, ncalls, lifeVars, fifoVars>>]_vars
    /\ [](\A c \in SignedCoords :
            Negative(c) => /\ getChunkStatus(c) = Unloaded
                           /\ c \notin DOMAIN chunkToLoaded)

\* requests were made with a negative x, with a negative z and with both,
\* and the last getStatus found Unloaded while a chunk at a non-negative
\* coordinate is Loaded
C34_Witness ==
    /\ \E c \in requested : c.x < 0 /\ c.z >= 0
    /\ \E c \in requested : c.x >= 0 /\ c.z < 0
    /\ \E c \in requested : c.x < 0 /\ c.z < 0
    /\ \E c \in requested : ~Negative(c) /\ getChunkStatus(c) = Loaded
    /\ ret.op = "getStatus" /\ ret.st = Unloaded

\* every job pushed so far was given a slot by the pool, no coordinate was
\* pushed twice, and the file has a record for the chunk field of the slots
CleanHistory ==
    /\ \A i \in 1..Len(pushed) : pushed[i].acc
    /\ \A i, j \in 1..Len(pushed) : pushed[i].c = pushed[j].c => i = j
    /\ Chunk(0, 0) \in DOMAIN fileOffsets

\* worker w holds a job whose coordinate was unloaded after the job was
\* pushed: the coordinate had a slot when pushed and has none now
StaleJob(w) ==
    /\ wpc[w] \in {"resolve", "read", "publish"}
    /\ CleanHistory
    /\ wc[w] \notin DOMAIN chunkToLoaded

\* C35: a job whose coordinate was unloaded while the job was queued or in
\* progress runs to its end without ending the process and without storing
\* Loaded on any slot.
C35_StaleJobHarmless ==
    [][\A w \in Workers :
         (StaleJob(w) /\ WorkerStep) =>
            /\ fault' = None
            /\ \A s \in Slots : status'[s] = Loaded => status[s] = Loaded]_vars

\* a step in which worker w looks its coordinate up in chunkToLoaded, in
\* getPoolIndex or in setChunkStatus
MapLookup(w) == WorkerGetPoolIndex(w) \/ WorkerSetStatusLookup(w)

\* C31: no worker looks a coordinate up in chunkToLoaded (in getPoolIndex or
\* in setChunkStatus) while the owner thread is inside the insertion of
\* request or the erasure of unload.
C31_NoMapRace ==
    [][\A w \in Workers : MapLookup(w) => opc = Idle]_vars

\* C32: in every state a slot on the free-list has status Unloaded and a slot
\* some coordinate is mapped to has status Loading or Loaded.
C32_StatusMatchesStructure ==
    /\ \A i \in 1..Len(loadable) : status[loadable[i]] = Unloaded
    /\ \A s \in MappedSlots : status[s] \in {Loading, Loaded}

TypeOK ==
    /\ status \in [Slots -> ChunkStatus]
    /\ DOMAIN chunkToLoaded \subseteq Coords \cup PoolCoords \cup SignedCoords
    /\ loaded.size \in 0..capacity
    /\ fault \in {None, "ub", "very bad", "terminate"}
    /\ \A w \in Workers :
          wpc[w] \in {"pop", "sleep", "resolve", "read", "publish", "store", "exit"}
    /\ opc.at \in {"idle", "insert", "erase"}
    /\ \A w \in Workers : wSet[w] \in Slots \cup {NoIndex}
    /\ stop \subseteq Workers /\ joined \subseteq stop
    /\ dtor \in {"live", "stopping", "joining", "releasing", "released"}

=============================================================================
